---- MODULE Spec2Model ----
(***************************************************************************)
(* Model of pkg/resource/plan.go: the planner (NewPlan / newPlan) and the  *)
(* executor (plan.Apply / step.Apply).                                     *)
(*                                                                         *)
(* A snapshot is nil or a list of resources.  newPlan diffs the two        *)
(* snapshots, creates one plan vertex per delete / create / update,        *)
(* connects the vertices, selects the vertices without in-edges as roots,  *)
(* topologically sorts the graph reachable from the roots and threads the  *)
(* sorted steps into a chain.  contract.Assert failures abort planning.    *)
(***************************************************************************)
EXTENDS Integers, Sequences, FiniteSets, TLC

\* ------------------------------------------------------------------------
\* Universe of the inputs
\* ------------------------------------------------------------------------

\* The monikers of the model, in the order snapshots enumerate them.
MonikerOrder == <<"A", "B">>

Monikers == {MonikerOrder[i] : i \in 1..Len(MonikerOrder)}

\* Resource types; the leading segment is the package.
Types == {"pkg.X", "pkg.Y"}

\* Scalar property values are 1..MaxVal.
MaxVal == 2

\* A provider hands out at most MaxID distinct fresh IDs.
MaxID == 1

\* ID("") of the source.
NoID == 0

\* The ID a resource of the old snapshot was materialized with.
OldID(m) == CHOOSE i \in 1..Len(MonikerOrder) : MonikerOrder[i] = m

\* IDs a provider returns from Create or from a replacing Update.
FreshIDs == {Len(MonikerOrder) + k : k \in 1..MaxID}

\* The monikers of S as a list, in MonikerOrder.
SeqOf(S) == SelectSeq(MonikerOrder, LAMBDA m : m \in S)

\* Property bags: one scalar and a set of resource references.
PropertyBags == [v : 1..MaxVal, refs : SUBSET Monikers]

\* All non-nil snapshots within the bounds: any subset of the monikers, each
\* resource of any type and with any property bag that refers to other
\* resources.  Resources of the old snapshot carry the ID they were
\* materialized with, resources of the new one none.
SnapshotsOver(isOld) ==
    UNION { { [nil |-> FALSE,
               res |-> [i \in 1..Cardinality(S) |->
                          [m     |-> SeqOf(S)[i],
                           t     |-> f[SeqOf(S)[i]].t,
                           props |-> f[SeqOf(S)[i]].props,
                           id    |-> IF isOld THEN OldID(SeqOf(S)[i]) ELSE NoID]]]
              : f \in { g \in [S -> [t : Types, props : PropertyBags]] :
                          \A m \in S : m \notin g[m].props.refs } }
            : S \in SUBSET Monikers }

NilSnapshot == [nil |-> TRUE, res |-> <<>>]

OldSnapshots == {NilSnapshot} \cup SnapshotsOver(TRUE)

NewSnapshots == {NilSnapshot} \cup SnapshotsOver(FALSE)

\* ------------------------------------------------------------------------
\* Snapshot and property helpers
\* ------------------------------------------------------------------------

\* Snapshot.Resources(), guarded by the nil test of newPlan.
Resources(snap) == IF snap.nil THEN <<>> ELSE snap.res

\* PropertyMap.AllResources(): the monikers a property bag refers to.
AllResources(props) == props.refs

\* PropertyMap.DeepEquals.
DeepEquals(p, q) == p.v = q.v /\ p.refs = q.refs

\* The keys of the map olds / news built from a resource list.
Keys(rs) == {rs[i].m : i \in 1..Len(rs)}

\* olds[m] / news[m].
Lookup(rs, m) == rs[CHOOSE i \in 1..Len(rs) : rs[i].m = m]

\* olddepends[m]: the resources of old that refer to m.
OldDepends(oldres, m) ==
    {oldres[i].m : i \in {j \in 1..Len(oldres) : m \in AllResources(oldres[j].props)}}

\* ------------------------------------------------------------------------
\* newPlan: the diff
\* ------------------------------------------------------------------------

\* The absent step / vertex / error (nil).
Nil == "nil"

OpCreate == "create"

OpUpdate == "update"

OpDelete == "delete"

\* Anything in old but not new is a delete.
Deletes(oldres, newres) == {m \in Keys(oldres) : m \notin Keys(newres)}

\* Anything in new but not old is a create.
Creates(oldres, newres) == {m \in Keys(newres) : m \notin Keys(oldres)}

\* Updates with the negation of the DeepEquals test lost.
UpdatesWhenEqual(oldres, newres) ==
    {m \in Keys(newres) \cap Keys(oldres) :
        DeepEquals(Lookup(newres, m).props, Lookup(oldres, m).props)}

\* For those things in both new and old, any changed properties imply an
\* update.
Updates(oldres, newres) ==
    {m \in Keys(newres) \cap Keys(oldres) :
        ~DeepEquals(Lookup(newres, m).props, Lookup(oldres, m).props)}

\* TypesAgree with the type assertion left out.
TypesUnchecked(oldres, newres) == TRUE

\* contract.Assert(oldres.Type() == res.Type()) holds for every shared moniker.
TypesAgree(oldres, newres) ==
    \A m \in Keys(newres) \cap Keys(oldres) : Lookup(oldres, m).t = Lookup(newres, m).t

\* Vertices with the step of a deleted resource built as an update step.
VerticesMisfiled(oldres, newres) ==
    [m \in Deletes(oldres, newres) \cup Updates(oldres, newres) \cup Creates(oldres, newres) |->
        IF m \in Creates(oldres, newres) THEN OpCreate ELSE OpUpdate]

\* vs: the plan vertices, one step per planned moniker, given by its operation.
Vertices(oldres, newres) ==
    [m \in Deletes(oldres, newres) \cup Updates(oldres, newres) \cup Creates(oldres, newres) |->
        IF m \in Deletes(oldres, newres) THEN OpDelete
        ELSE IF m \in Creates(oldres, newres) THEN OpCreate
        ELSE OpUpdate]

\* ------------------------------------------------------------------------
\* newPlan: the plan graph.  A link <<from, to>> is one fromv.connectTo(tov).
\* ------------------------------------------------------------------------

\* Deleted resources: fromv is each old dependent, tov the deleted resource.
DeleteLinks(oldres, newres) ==
    {l \in Monikers \X Monikers :
        /\ l[2] \in Deletes(oldres, newres)
        /\ l[1] \in OldDepends(oldres, l[2])}

\* Updated resources: fromv is the update, tov each reference of the new
\* properties.
UpdateLinks(oldres, newres) ==
    {l \in Monikers \X Monikers :
        /\ l[1] \in Updates(oldres, newres)
        /\ l[2] \in AllResources(Lookup(newres, l[1]).props)}

\* CreateLinks with fromv and tov exchanged.
CreateLinksReversed(oldres, newres) ==
    {l \in Monikers \X Monikers :
        /\ l[2] \in Creates(oldres, newres)
        /\ l[1] \in AllResources(Lookup(newres, l[2]).props)}

\* Created resources: fromv is the create, tov each reference of its properties.
CreateLinks(oldres, newres) ==
    {l \in Monikers \X Monikers :
        /\ l[1] \in Creates(oldres, newres)
        /\ l[2] \in AllResources(Lookup(newres, l[1]).props)}

Links(oldres, newres) ==
    DeleteLinks(oldres, newres) \cup UpdateLinks(oldres, newres) \cup CreateLinks(oldres, newres)

\* contract.Assert(fromv != nil) / contract.Assert(tov != nil) hold for every
\* link.
VerticesFound(oldres, newres) ==
    \A l \in Links(oldres, newres) :
        l[1] \in DOMAIN Vertices(oldres, newres) /\ l[2] \in DOMAIN Vertices(oldres, newres)

\* planVertex.connectTo over all links: edges are a set, self-edges are not
\* added.
connectTo(links) == {l \in links : l[1] # l[2]}

\* planVertex.Ins().
Ins(v, E) == {e \in E : e[2] = v}

\* planVertex.Outs().
Outs(v, E) == {e \in E : e[1] = v}

\* For all vertices with no ins, make them root nodes.
Roots(V, E) == {v \in V : Ins(v, E) = {}}

\* ------------------------------------------------------------------------
\* graph.Topsort over the graph given by its roots
\* ------------------------------------------------------------------------

\* The vertices the graph newPlanGraph(p, roots) holds: those reachable from a
\* root along out-edges.
RECURSIVE Reach(_, _)
Reach(R, E) ==
    LET more == R \cup {e[2] : e \in {d \in E : d[1] \in R}}
    IN IF more = R THEN R ELSE Reach(more, E)

\* The least moniker of a nonempty set, in MonikerOrder.
MinMoniker(S) ==
    MonikerOrder[CHOOSE i \in 1..Len(MonikerOrder) :
        /\ MonikerOrder[i] \in S
        /\ \A j \in 1..(i - 1) : MonikerOrder[j] \notin S]

Range(s) == {s[i] : i \in 1..Len(s)}

\* Emit, among the vertices whose out-neighbours are all emitted, the least
\* moniker; a remainder with no such vertex is a cycle.
RECURSIVE TopsortFrom(_, _, _)
TopsortFrom(V, E, sorted) ==
    LET rest  == V \ Range(sorted)
        ready == {v \in rest : \A e \in Outs(v, E) : e[2] \in Range(sorted)}
    IN IF rest = {} THEN [err |-> FALSE, sorted |-> sorted]
       ELSE IF ready = {} THEN [err |-> TRUE, sorted |-> sorted]
       ELSE TopsortFrom(V, E, Append(sorted, MinMoniker(ready)))

\* Topsort that sorts the vertices under each root in turn, in the order of the
\* root list, so that the order of the roots shows in the result.
RECURSIVE TopsortByRoot(_, _, _, _)
TopsortByRoot(R, E, i, acc) ==
    IF i > Len(R) \/ acc.err THEN acc
    ELSE TopsortByRoot(R, E, i + 1, TopsortFrom(Reach({R[i]}, E) \cup Range(acc.sorted), E, acc.sorted))

TopsortInRootOrder(R, E) == TopsortByRoot(R, E, 1, [err |-> FALSE, sorted |-> <<>>])

\* graph.Topsort(g) for the graph of the root list R.
Topsort(R, E) == TopsortFrom(Reach(Range(R), E), E, <<>>)

\* ------------------------------------------------------------------------
\* Threading the chain
\* ------------------------------------------------------------------------

\* insertStep(&prev, step) for each vertex of topdag in turn: the first step
\* becomes p.first, every later one the next of its predecessor.
insertStep(pl, prev, s) ==
    IF prev = Nil
    THEN [pl EXCEPT !.first = s]
    ELSE [pl EXCEPT !.next = [@ EXCEPT ![prev] = s]]

RECURSIVE Thread(_, _, _, _)
Thread(pl, prev, topdag, i) ==
    IF i > Len(topdag) THEN pl
    ELSE Thread(insertStep(pl, prev, topdag[i]), topdag[i], topdag, i + 1)

\* The orders in which a range over a map with the keys S may enumerate it.
Enumerations(S) == {e \in [1..Cardinality(S) -> S] : Range(e) = S}

\* roots: the root vertices in the order in which the range over vs met them.
RootList(enum, E) == SelectSeq(enum, LAMBDA v : v \in Roots(Range(enum), E))

\* newPlan(ctx, old, new) when the range over vs enumerates it as enum: the
\* failure that aborts planning, or the plan.
newPlanIn(o, n, enum) ==
    LET oldres == Resources(o)
        newres == Resources(n)
        vs     == Vertices(oldres, newres)
        E      == connectTo(Links(oldres, newres))
        roots  == RootList(enum, E)
        top    == Topsort(roots, E)
        empty  == [first |-> Nil, next |-> [m \in DOMAIN vs |-> Nil]]
    IN IF ~TypesAgree(oldres, newres)
       THEN [failure |-> "TypeMismatch", vs |-> << >>, edges |-> {}, p |-> [first |-> Nil, next |-> << >>]]
       ELSE IF ~VerticesFound(oldres, newres)
       THEN [failure |-> "NoVertex", vs |-> vs, edges |-> {}, p |-> empty]
       ELSE IF top.err
       THEN [failure |-> "Cycle", vs |-> vs, edges |-> E, p |-> empty]
       ELSE [failure |-> Nil, vs |-> vs, edges |-> E,
             p |-> Thread(empty, Nil, top.sorted, 1)]

\* newPlan(ctx, old, new) when the range over vs enumerates it in moniker
\* order.
newPlan(o, n) ==
    newPlanIn(o, n, SeqOf(DOMAIN Vertices(Resources(o), Resources(n))))

\* plan.Steps().
Steps(pl) == pl.first

\* plan.Empty().
Empty(pl) == Steps(pl) = Nil

\* step.Next().
NextOf(pl, s) == pl.next[s]

\* The chain reached from Steps() by following Next().
RECURSIVE ChainFrom(_, _, _)
ChainFrom(pl, s, acc) ==
    IF s = Nil \/ s \in Range(acc) THEN acc
    ELSE ChainFrom(pl, NextOf(pl, s), Append(acc, s))

Chain(pl) == ChainFrom(pl, Steps(pl), <<>>)

\* The position of step s in the chain, 0 when it is not in the chain.
Pos(pl, s) ==
    LET chain == Chain(pl)
    IN IF s \in Range(chain)
       THEN CHOOSE i \in 1..Len(chain) : chain[i] = s
       ELSE 0

\* ------------------------------------------------------------------------
\* State
\* ------------------------------------------------------------------------

VARIABLES
    old,      \* the old snapshot handed to NewPlan
    new,      \* the new snapshot handed to NewPlan; step.Apply sets IDs in it
    pc,       \* "plan", "ready", "before", "apply", "after", "done", "panic"
    failure,  \* the contract assertion that aborted, or Nil
    vs,       \* the plan vertices: moniker -> operation of its step
    edges,    \* the edges connectTo added
    p,        \* the plan: p.first and the next pointer of every step
    prog,     \* TRUE iff Apply was handed a non-nil Progress
    step,     \* the loop variable of plan.Apply
    err,      \* the error of the last step.Apply
    rst,      \* the resource state of the last step.Apply
    events,   \* what the Progress observer has seen
    calls,    \* the provider resolutions and provider operations made
    ret,      \* what plan.Apply returned
    world,    \* what the providers hold: moniker -> type and properties
    phase     \* 1: the plan from old to new; 2: the plan back again

vars == <<old, new, pc, failure, vs, edges, p, prog, step, err, rst, events, calls, ret, world, phase>>

StateOK == "StateOK"

StateUnknown == "StateUnknown"

\* The resource states a failing provider operation may report.
ResourceStates == {StateOK, StateUnknown}

NoRet == [err |-> Nil, step |-> Nil, rst |-> Nil]

\* What the providers hold when exactly the resources of snap are materialized.
Materialized(snap) ==
    [m \in Keys(Resources(snap)) |->
        [t |-> Lookup(Resources(snap), m).t, props |-> Lookup(Resources(snap), m).props]]

Init ==
    /\ old \in OldSnapshots
    /\ new \in NewSnapshots
    /\ pc = "plan"
    /\ failure = Nil
    /\ vs = << >>
    /\ edges = {}
    /\ p = [first |-> Nil, next |-> << >>]
    /\ prog = FALSE
    /\ step = Nil
    /\ err = Nil
    /\ rst = Nil
    /\ events = <<>>
    /\ calls = <<>>
    /\ ret = NoRet
    /\ world = Materialized(old)
    /\ phase = 1

\* NewPlan(ctx, old, new): returns the plan, or a contract assertion aborts.
NewPlan ==
    /\ pc = "plan"
    /\ \E enum \in Enumerations(DOMAIN Vertices(Resources(old), Resources(new))) :
       LET r == newPlanIn(old, new, enum)
       IN /\ failure' = r.failure
          /\ vs' = r.vs
          /\ edges' = r.edges
          /\ p' = r.p
          /\ pc' = IF r.failure = Nil THEN "ready" ELSE "panic"
    /\ UNCHANGED <<old, new, prog, step, err, rst, events, calls, ret, world, phase>>

\* ------------------------------------------------------------------------
\* plan.Apply
\* ------------------------------------------------------------------------

\* var step Step = p.Steps(), with or without a Progress.
ApplyBegin ==
    /\ pc = "ready"
    /\ \E pr \in BOOLEAN : prog' = pr
    /\ step' = Steps(p)
    /\ pc' = "before"
    /\ UNCHANGED <<old, new, failure, vs, edges, p, err, rst, events, calls, ret, world, phase>>

\* for step != nil { if prog != nil { prog.Before(step) }
Before ==
    /\ pc = "before"
    /\ step # Nil
    /\ events' = IF prog THEN Append(events, [kind |-> "Before", step |-> step, err |-> Nil, rst |-> Nil, id |-> NoID])
                 ELSE events
    /\ pc' = "apply"
    /\ UNCHANGED <<old, new, failure, vs, edges, p, prog, step, err, rst, calls, ret, world, phase>>

\* Resource.SetID on the new resource of moniker m.
SetID(snap, m, id) ==
    [snap EXCEPT !.res = [i \in 1..Len(snap.res) |->
        IF snap.res[i].m = m THEN [snap.res[i] EXCEPT !.id = id] ELSE snap.res[i]]]

\* The resource a step resolves its provider for: s.new for a create, s.old
\* otherwise.
HasID(res) == res.id # NoID

\* The contract assertions at the head of each case of step.Apply.
StepAsserts(op, m) ==
    CASE op = OpCreate -> m \notin Keys(Resources(old)) /\ m \in Keys(Resources(new))
                          /\ ~HasID(Lookup(Resources(new), m))
      [] op = OpDelete -> m \in Keys(Resources(old)) /\ m \notin Keys(Resources(new))
                          /\ HasID(Lookup(Resources(old), m))
      [] op = OpUpdate -> m \in Keys(Resources(old)) /\ m \in Keys(Resources(new))
                          /\ Lookup(Resources(old), m).t = Lookup(Resources(new), m).t
                          /\ HasID(Lookup(Resources(old), m))

\* The provider operation of each kind of step.
ProviderCall(op) ==
    CASE op = OpCreate -> "Create"
      [] op = OpDelete -> "Delete"
      [] op = OpUpdate -> "Update"

\* The IDs a successful provider operation may return.
ReturnedIDs(op) ==
    CASE op = OpCreate -> FreshIDs
      [] op = OpDelete -> {NoID}
      [] op = OpUpdate -> {NoID} \cup FreshIDs

\* What a provider operation may answer: an error with a resource state, or
\* success with an ID.
OpOutcomes(op) ==
    {[err |-> "ProviderFailure", rst |-> r, id |-> NoID] : r \in ResourceStates}
        \cup {[err |-> Nil, rst |-> StateOK, id |-> i] : i \in ReturnedIDs(op)}

\* What resolving the provider of a package may answer.
ProviderOutcomes == {Nil, "ProviderUnavailable"}

\* ProviderErrorReturns with the error of the resolution ignored.
ProviderErrorIgnored(perr) == FALSE

\* prov, err := s.p.Provider(...); if err != nil { return err, StateOK }
ProviderErrorReturns(perr) == perr # Nil

\* ApplyID with the SetID of a create lost.
ApplyIDSkipsCreate(snap, op, m, id) ==
    CASE op = OpCreate -> snap
      [] op = OpDelete -> snap
      [] op = OpUpdate -> IF id # NoID THEN SetID(snap, m, id) ELSE snap

\* ApplyID with the ID an update returns ignored.
ApplyIDIgnoresReplacement(snap, op, m, id) ==
    CASE op = OpCreate -> SetID(snap, m, id)
      [] op = OpDelete -> snap
      [] op = OpUpdate -> snap

\* The new snapshot after a successful provider operation that returned id:
\* a create sets the ID, an update sets it when it is not empty.
ApplyID(snap, op, m, id) ==
    CASE op = OpCreate -> SetID(snap, m, id)
      [] op = OpDelete -> snap
      [] op = OpUpdate -> IF id # NoID THEN SetID(snap, m, id) ELSE snap

\* What the providers hold after the operation of a step on m has succeeded.
WorldAfter(w, op, m) ==
    CASE op = OpCreate ->
            [x \in DOMAIN w \cup {m} |->
                IF x = m THEN [t |-> Lookup(Resources(new), m).t, props |-> Lookup(Resources(new), m).props]
                ELSE w[x]]
      [] op = OpDelete -> [x \in DOMAIN w \ {m} |-> w[x]]
      [] op = OpUpdate ->
            [x \in DOMAIN w \cup {m} |->
                IF x = m THEN [t |-> Lookup(Resources(old), m).t, props |-> Lookup(Resources(new), m).props]
                ELSE w[x]]

\* err, rst := step.Apply(): an assertion fails, or the provider cannot be
\* resolved, or the provider operation fails, or it succeeds.
StepApply ==
    /\ pc = "apply"
    /\ IF ~StepAsserts(vs[step], step)
       THEN /\ pc' = "panic"
            /\ failure' = "StepAssert"
            /\ UNCHANGED <<new, err, rst, calls, world>>
       ELSE /\ pc' = "after"
            /\ failure' = failure
            /\ \E perr \in ProviderOutcomes :
                  LET res == [call |-> "Provider", m |-> step, id |-> NoID, err |-> perr]
                  IN IF ProviderErrorReturns(perr)
                     THEN /\ err' = perr
                          /\ rst' = StateOK
                          /\ calls' = Append(calls, res)
                          /\ UNCHANGED <<new, world>>
                     ELSE \E o \in OpOutcomes(vs[step]) :
                          /\ err' = o.err
                          /\ rst' = o.rst
                          /\ calls' = calls \o <<res, [call |-> ProviderCall(vs[step]), m |-> step,
                                                       id |-> o.id, err |-> o.err]>>
                          /\ new' = IF o.err = Nil THEN ApplyID(new, vs[step], step, o.id) ELSE new
                          /\ world' = IF o.err = Nil THEN WorldAfter(world, vs[step], step) ELSE world
    /\ UNCHANGED <<old, vs, edges, p, prog, step, events, ret, phase>>

\* The ID the observer finds on the new resource of a step.
NewIDOf(m) == IF m \in Keys(Resources(new)) THEN Lookup(Resources(new), m).id ELSE NoID

\* Halts with the error test lost: the loop goes on after a failing step.
HaltsNever(e) == FALSE

\* Halts with the error test inverted.
HaltsInverted(e) == e = Nil

\* if err != nil
Halts(e) == e # Nil

\* After with the error test moved in front of prog.After: the observer is not
\* told of a failing step.
AfterSkipsFailure ==
    /\ pc = "after"
    /\ events' = IF prog /\ ~Halts(err)
                 THEN Append(events, [kind |-> "After", step |-> step, err |-> err, rst |-> rst, id |-> NewIDOf(step)])
                 ELSE events
    /\ IF Halts(err)
       THEN /\ ret' = [err |-> err, step |-> step, rst |-> rst]
            /\ pc' = "done"
            /\ step' = step
       ELSE /\ step' = NextOf(p, step)
            /\ pc' = "before"
            /\ ret' = ret
    /\ UNCHANGED <<old, new, failure, vs, edges, p, prog, err, rst, calls, world, phase>>

\* After with a rollback: on a failing step the IDs set so far are taken back.
AfterRollsBack ==
    /\ pc = "after"
    /\ events' = IF prog THEN Append(events, [kind |-> "After", step |-> step, err |-> err, rst |-> rst, id |-> NewIDOf(step)])
                 ELSE events
    /\ IF Halts(err)
       THEN /\ ret' = [err |-> err, step |-> step, rst |-> rst]
            /\ pc' = "done"
            /\ step' = step
            /\ new' = [new EXCEPT !.res = [i \in 1..Len(new.res) |-> [new.res[i] EXCEPT !.id = NoID]]]
       ELSE /\ step' = NextOf(p, step)
            /\ pc' = "before"
            /\ ret' = ret
            /\ new' = new
    /\ UNCHANGED <<old, failure, vs, edges, p, prog, err, rst, calls, world, phase>>

\* if prog != nil { prog.After(step, err, rst) }; if err != nil { return err,
\* step, rst }; step = step.Next() }
After ==
    /\ pc = "after"
    /\ events' = IF prog THEN Append(events, [kind |-> "After", step |-> step, err |-> err, rst |-> rst, id |-> NewIDOf(step)])
                 ELSE events
    /\ IF Halts(err)
       THEN /\ ret' = [err |-> err, step |-> step, rst |-> rst]
            /\ pc' = "done"
            /\ step' = step
       ELSE /\ step' = NextOf(p, step)
            /\ pc' = "before"
            /\ ret' = ret
    /\ UNCHANGED <<old, new, failure, vs, edges, p, prog, err, rst, calls, world, phase>>

\* return nil, nil, StateOK
Return ==
    /\ pc = "before"
    /\ step = Nil
    /\ ret' = [err |-> Nil, step |-> Nil, rst |-> StateOK]
    /\ pc' = "done"
    /\ UNCHANGED <<old, new, failure, vs, edges, p, prog, step, err, rst, events, calls, world, phase>>

Next == NewPlan \/ ApplyBegin \/ Before \/ StepApply \/ After \/ Return

Spec == Init /\ [][Next]_vars

\* The steps of plan.Apply, from the call to the return.
ApplyNext == ApplyBegin \/ Before \/ StepApply \/ After \/ Return

\* plan.Apply is sequential and every provider call returns: once a plan is
\* there, whatever step of Apply is enabled is taken.
FairSpec == Spec /\ WF_vars(ApplyNext)

\* ------------------------------------------------------------------------
\* The round trip: after Plan(old = A, new = B) was applied without error,
\* Plan(old = B as applied, new = A) is built and applied.
\* ------------------------------------------------------------------------

\* A snapshot as a desired state: the same resources, none with an ID.
StripIDs(snap) ==
    [snap EXCEPT !.res = [i \in 1..Len(snap.res) |-> [snap.res[i] EXCEPT !.id = NoID]]]

Reverse ==
    /\ phase = 1
    /\ pc = "done"
    /\ ret.err = Nil
    /\ old' = new
    /\ new' = StripIDs(old)
    /\ phase' = 2
    /\ pc' = "plan"
    /\ failure' = Nil
    /\ vs' = << >>
    /\ edges' = {}
    /\ p' = [first |-> Nil, next |-> << >>]
    /\ prog' = FALSE
    /\ step' = Nil
    /\ err' = Nil
    /\ rst' = Nil
    /\ events' = <<>>
    /\ calls' = <<>>
    /\ ret' = NoRet
    /\ world' = world

NextRoundTrip == Next \/ Reverse

SpecRoundTrip == Init /\ [][NextRoundTrip]_vars

\* ------------------------------------------------------------------------
\* Vocabulary of the properties
\* ------------------------------------------------------------------------

\* NewPlan has run.
Planned == pc # "plan"

\* NewPlan has returned a plan.
PlanReturned == Planned /\ failure \notin {"TypeMismatch", "NoVertex", "Cycle"}

\* Some vertex of E lies on a cycle of E.
HasCycle(E) == \E e \in E : e[1] \in Reach({e[2]}, E)

\* The references of the resources of a snapshot, as pairs <<m, r>>.
RefLinks(snap) ==
    {l \in Monikers \X Monikers :
        /\ l[1] \in Keys(Resources(snap))
        /\ l[2] \in AllResources(Lookup(Resources(snap), l[1]).props)}

\* Some moniker has one type in old and another in new.
TypeMismatch ==
    \E i \in 1..Len(Resources(old)) : \E j \in 1..Len(Resources(new)) :
        /\ Resources(old)[i].m = Resources(new)[j].m
        /\ Resources(old)[i].t # Resources(new)[j].t

\* Step a comes strictly before step b in the chain, both being in it.
Precedes(a, b) == Pos(p, a) > 0 /\ Pos(p, b) > 0 /\ Pos(p, a) < Pos(p, b)

\* ------------------------------------------------------------------------
\* Properties
\* ------------------------------------------------------------------------

\* C1: in every plan NewPlan returns, for every edge a -> b added to the plan
\* graph, the step of b is in the chain strictly before the step of a.
C1_EdgesOrdered ==
    PlanReturned => \A e \in edges : Precedes(e[2], e[1])

\* C2: with old absent and new nonempty, its references acyclic and inside
\* new, the plan is exactly one create step per resource of new, and every
\* referenced resource is created before the resource that refers to it.
C2_Pre ==
    /\ old.nil
    /\ Keys(Resources(new)) # {}
    /\ \A l \in RefLinks(new) : l[2] \in Keys(Resources(new))
    /\ ~HasCycle(RefLinks(new))

C2_CreateChain ==
    (Planned /\ C2_Pre) =>
        /\ PlanReturned
        /\ Range(Chain(p)) = Keys(Resources(new))
        /\ Len(Chain(p)) = Cardinality(Keys(Resources(new)))
        /\ \A m \in Range(Chain(p)) : vs[m] = OpCreate
        /\ \A l \in RefLinks(new) : Precedes(l[2], l[1])

C2_Witness ==
    /\ pc = "ready"
    /\ C2_Pre
    /\ <<"B", "A">> \in RefLinks(new)
    /\ Chain(p) = <<"A", "B">>

\* C3: in every plan NewPlan returns, every planned old dependent of a deleted
\* moniker has its step before the delete; with new absent and old nonempty
\* the plan is only deletes.
C3_DependentsBeforeDelete ==
    PlanReturned =>
        /\ \A m \in DOMAIN vs : \A d \in OldDepends(Resources(old), m) :
              (vs[m] = OpDelete /\ d \in DOMAIN vs /\ d # m) => Precedes(d, m)
        /\ (new.nil /\ Keys(Resources(old)) # {}) =>
              \A m \in Range(Chain(p)) : vs[m] = OpDelete

\* C4: an error of step.Apply halts plan.Apply: it returns that error, that
\* step and that resource state, and no provider is resolved or called for a
\* step after the failing one.
C4_HaltOnFirstError ==
    err # Nil =>
        /\ pc \in {"after", "done"}
        /\ Pos(p, step) > 0
        /\ \A i \in 1..Len(calls) : Pos(p, calls[i].m) <= Pos(p, step)
        /\ calls[Len(calls)].m = step
        /\ pc = "done" => ret = [err |-> err, step |-> step, rst |-> rst]

C4_Witness ==
    /\ pc = "done"
    /\ ret.err = "ProviderFailure"
    /\ Len(Chain(p)) = 2
    /\ ret.step = Chain(p)[1]

\* The number of provider resolutions made so far, one per applied step.
Resolutions == Cardinality({i \in 1..Len(calls) : calls[i].call = "Provider"})

\* C5: a Progress sees Before(s1), After(s1), Before(s2), After(s2), ... in
\* chain order, the provider operation of a step runs between its Before and
\* its After, and no Before follows an After that carries an error.
C5_ObserverSequence ==
    prog =>
        /\ \A k \in 1..Len(events) :
              /\ (k + 1) \div 2 <= Len(Chain(p))
              /\ events[k].step = Chain(p)[(k + 1) \div 2]
              /\ events[k].kind = IF k % 2 = 1 THEN "Before" ELSE "After"
              /\ (events[k].kind = "After" /\ events[k].err # Nil) => k = Len(events)
        /\ pc \in {"apply", "after"} => Len(events) % 2 = 1 /\ events[Len(events)].step = step
        /\ pc \in {"before", "done"} => Len(events) % 2 = 0
        /\ Resolutions = (Len(events) \div 2) + (IF pc = "after" THEN 1 ELSE 0)

C5_Witness ==
    /\ prog
    /\ pc = "done"
    /\ Len(events) = 4
    /\ events[4].err # Nil

\* C6: a cycle in the dependency graph of the planned steps makes NewPlan
\* fail with the cycle error; it returns no plan.
C6_CycleRejected ==
    (Planned /\ HasCycle(edges)) => failure = "Cycle"

\* C7: a link whose endpoint has no vertex is omitted and NewPlan still
\* returns a plan holding the step of the linked moniker.
C7_MissingVertexOmitted ==
    (Planned /\ ~TypeMismatch /\ ~VerticesFound(Resources(old), Resources(new))) =>
        /\ failure # "NoVertex"
        /\ failure = Nil =>
              \A l \in Links(Resources(old), Resources(new)) :
                  \A m \in {l[1], l[2]} \cap DOMAIN vs : Pos(p, m) > 0

\* C8: every moniker of either snapshot is a delete, a create, an update or a
\* noop by the diff rules, and a returned plan holds exactly one step, of the
\* matching operation, for each delete, create and update and none for a noop.
Classify(m) ==
    IF m \in Keys(Resources(old)) /\ m \notin Keys(Resources(new)) THEN OpDelete
    ELSE IF m \notin Keys(Resources(old)) THEN OpCreate
    ELSE IF ~DeepEquals(Lookup(Resources(new), m).props, Lookup(Resources(old), m).props)
    THEN OpUpdate
    ELSE "noop"

C8_OneStepPerMoniker ==
    PlanReturned =>
        /\ Len(Chain(p)) = Cardinality(Range(Chain(p)))
        /\ \A m \in Keys(Resources(old)) \cup Keys(Resources(new)) :
              IF Classify(m) = "noop"
              THEN Pos(p, m) = 0
              ELSE Pos(p, m) > 0 /\ vs[m] = Classify(m)

\* Snapshots with the same monikers, the same types and deeply equal
\* properties.
StructEq(o, n) ==
    /\ Keys(Resources(o)) = Keys(Resources(n))
    /\ \A m \in Keys(Resources(o)) :
          /\ Lookup(Resources(o), m).t = Lookup(Resources(n), m).t
          /\ DeepEquals(Lookup(Resources(o), m).props, Lookup(Resources(n), m).props)

\* C9: structurally equal snapshots, and two absent snapshots, give the empty
\* plan: Empty() holds, Steps() is nil, and Apply calls no provider and returns
\* (nil, nil, StateOK).
C9_EqualSnapshotsEmptyPlan ==
    (Planned /\ StructEq(old, new)) =>
        /\ PlanReturned
        /\ Empty(p)
        /\ Steps(p) = Nil
        /\ DOMAIN vs = {}
        /\ calls = <<>>
        /\ pc \in {"ready", "before", "done"}
        /\ pc = "done" => ret = [err |-> Nil, step |-> Nil, rst |-> StateOK]

C9_Witness ==
    /\ pc = "done"
    /\ StructEq(old, new)
    /\ Keys(Resources(old)) = Monikers
    /\ RefLinks(old) # {}

\* C10: a moniker with different types in the two snapshots makes planning
\* fail on the type assertion; no plan is returned.
C10_TypeMismatchFails ==
    (Planned /\ TypeMismatch) =>
        /\ pc = "panic"
        /\ failure = "TypeMismatch"
        /\ Empty(p)
        /\ DOMAIN vs = {}

C10_Witness ==
    /\ pc = "panic"
    /\ failure = "TypeMismatch"
    /\ "A" \in Keys(Resources(old)) \cap Keys(Resources(new))
    /\ Lookup(Resources(old), "A").t = "pkg.X"
    /\ Lookup(Resources(new), "A").t = "pkg.Y"

WellFormed(snap) ==
    /\ \A l \in RefLinks(snap) : l[2] \in Keys(Resources(snap))
    /\ ~HasCycle(RefLinks(snap))

\* The providers hold exactly the resources of snap, with its types and
\* properties.
Holds(w, snap) == w = Materialized(snap)

\* C12: with well-formed snapshots of agreeing types and providers that never
\* fail, the plan from A to B is built and applied without error, so is the
\* plan back from the applied B to A, and each apply leaves the providers
\* holding exactly the resources of its target: B after the first, A after
\* the second.
C12_RoundTrip ==
    (WellFormed(old) /\ WellFormed(new) /\ ~TypeMismatch /\ err = Nil /\ ret.err = Nil) =>
        /\ pc # "panic"
        /\ pc = "done" => Holds(world, new)

\* The successful calls of provider operation c for the step of m.
Succeeded(c, m) ==
    {i \in 1..Len(calls) : calls[i].call = c /\ calls[i].m = m /\ calls[i].err = Nil}

\* C13: the new resource of a create step has an ID exactly when
\* provider.Create succeeded for it, and then it is the non-empty ID the
\* provider returned; after a failed resolution or a failed Create it has none.
C13_CreateSetsID ==
    PlanReturned =>
        \A m \in DOMAIN vs :
            vs[m] = OpCreate =>
                IF Succeeded("Create", m) # {}
                THEN /\ NewIDOf(m) # NoID
                     /\ \A i \in Succeeded("Create", m) : NewIDOf(m) = calls[i].id
                ELSE NewIDOf(m) = NoID

C13_Witness ==
    /\ pc = "done"
    /\ Len(Chain(p)) = 2
    /\ vs["A"] = OpCreate /\ vs["B"] = OpCreate
    /\ Succeeded("Create", "A") # {}
    /\ NewIDOf("A") \in FreshIDs
    /\ ret.err = "ProviderFailure"
    /\ NewIDOf("B") = NoID

\* C14: after provider.Update succeeded with a non-empty ID, the new resource
\* of the update step has that ID, which is not the ID of the old resource,
\* and the After of the step reports it.
C14_ReplacementID ==
    PlanReturned =>
        \A m \in DOMAIN vs : \A i \in Succeeded("Update", m) :
            calls[i].id # NoID =>
                /\ NewIDOf(m) = calls[i].id
                /\ NewIDOf(m) # Lookup(Resources(old), m).id
                /\ \A k \in 1..Len(events) :
                      (events[k].kind = "After" /\ events[k].step = m) => events[k].id = calls[i].id

C14_Witness ==
    /\ pc = "done"
    /\ prog
    /\ ret.err = Nil
    /\ vs = [m \in {"A"} |-> OpUpdate]
    /\ NewIDOf("A") \in FreshIDs
    /\ events[2].id = NewIDOf("A")

\* C15: when the provider of a step cannot be resolved, step.Apply returns
\* that error with StateOK, calls no provider operation and changes no ID, and
\* plan.Apply returns on that step.
C15_Step ==
    /\ (\E i \in (Len(calls) + 1)..Len(calls') :
            calls'[i].call = "Provider" /\ calls'[i].err # Nil) =>
          /\ Len(calls') = Len(calls) + 1
          /\ err' = calls'[Len(calls')].err
          /\ rst' = StateOK
          /\ new' = new
          /\ world' = world
          /\ pc' = "after"
    /\ (pc = "after" /\ calls[Len(calls)].call = "Provider") =>
          /\ pc' = "done"
          /\ ret' = [err |-> err, step |-> step, rst |-> StateOK]
          /\ new' = new
          /\ calls' = calls

C15_ProviderUnavailable == [][C15_Step]_vars

C15_Witness ==
    /\ pc = "done"
    /\ ret.err = "ProviderUnavailable"
    /\ Len(calls) = 3
    /\ vs[ret.step] = OpCreate
    /\ NewIDOf(ret.step) = NoID

\* The calls a run of plan.Apply makes when it applies every step of the chain
\* once, in chain order, each to its end before the next, and none fails.
RECURSIVE CleanCalls(_, _)
CleanCalls(chain, i) ==
    IF i > Len(chain) THEN <<>>
    ELSE <<[call |-> "Provider", m |-> chain[i]],
           [call |-> ProviderCall(vs[chain[i]]), m |-> chain[i]]>> \o CleanCalls(chain, i + 1)

CallsMade == [i \in 1..Len(calls) |-> [call |-> calls[i].call, m |-> calls[i].m]]

\* C16: plan.Apply, once it can start, terminates; when no step erred it
\* returns (nil, nil, StateOK) and has applied every step of the chain exactly
\* once, in chain order, one after the other.
C16_Terminates ==
    (pc = "ready") ~>
        (/\ pc = "done"
         /\ ret.err = Nil =>
               /\ ret = [err |-> Nil, step |-> Nil, rst |-> StateOK]
               /\ CallsMade = CleanCalls(Chain(p), 1))

C16_Witness ==
    /\ pc = "done"
    /\ ret = [err |-> Nil, step |-> Nil, rst |-> StateOK]
    /\ Len(Chain(p)) = 2
    /\ Len(calls) = 4

\* Apply has halted on a failing step.
HaltedOnFailure == pc = "done" /\ ret.err # Nil

\* C17: when Apply has halted on the failing step at position k, every step
\* before k keeps its effect (the ID a create or a replacing update set, the
\* resource made or removed at the provider), the only calls made are those of
\* the steps up to k, each once, and the resources of the steps after k are as
\* they were before Apply.
C17_NoRollback ==
    HaltedOnFailure =>
        LET chain == Chain(p)
            k     == Pos(p, ret.step)
        IN /\ k > 0
           /\ Len(calls) \in {2 * k - 1, 2 * k}
           /\ \A i \in (2 * k - 1)..Len(calls) : calls[i].m = ret.step
           /\ \A j \in 1..(k - 1) :
                 /\ calls[2 * j - 1] = [call |-> "Provider", m |-> chain[j], id |-> NoID, err |-> Nil]
                 /\ calls[2 * j].call = ProviderCall(vs[chain[j]])
                 /\ calls[2 * j].m = chain[j]
                 /\ calls[2 * j].err = Nil
                 /\ vs[chain[j]] = OpCreate =>
                       /\ NewIDOf(chain[j]) = calls[2 * j].id
                       /\ NewIDOf(chain[j]) # NoID
                       /\ chain[j] \in DOMAIN world
                 /\ (vs[chain[j]] = OpUpdate /\ calls[2 * j].id # NoID) =>
                       NewIDOf(chain[j]) = calls[2 * j].id
                 /\ vs[chain[j]] = OpUpdate =>
                       world[chain[j]].props = Lookup(Resources(new), chain[j]).props
                 /\ vs[chain[j]] = OpDelete => chain[j] \notin DOMAIN world
           /\ \A j \in k..Len(chain) :
                 /\ NewIDOf(chain[j]) = NoID
                 /\ chain[j] \in DOMAIN world <=> chain[j] \in Keys(Resources(old))
                 /\ chain[j] \in DOMAIN world => world[chain[j]] = Materialized(old)[chain[j]]

C17_Witness ==
    /\ HaltedOnFailure
    /\ Len(Chain(p)) = 2
    /\ Pos(p, ret.step) = 2
    /\ vs[Chain(p)[1]] = OpCreate
    /\ NewIDOf(Chain(p)[1]) # NoID

\* C18: in every plan NewPlan returns, each vertex is met exactly once on the
\* way from Steps() along Next(), and the plan is Empty() iff there is no
\* vertex.
C18_ChainComplete ==
    PlanReturned =>
        /\ \A m \in DOMAIN vs :
              Cardinality({i \in 1..Len(Chain(p)) : Chain(p)[i] = m}) = 1
        /\ Empty(p) <=> DOMAIN vs = {}

\* Apply has returned (nil, nil, StateOK).
Completed == pc = "done" /\ ret.err = Nil

\* C19: after Apply has completed without error, every resource of the new
\* snapshot that a provider holds has an ID; where the provider kept the
\* resource in place (an update that returned no ID, or no step at all) it is
\* the ID of the old resource.
C19_MaterializedHasID ==
    Completed =>
        \A m \in Keys(Resources(new)) \cap DOMAIN world :
            /\ NewIDOf(m) # NoID
            /\ (m \in Keys(Resources(old))
                   /\ \A i \in 1..Len(calls) : calls[i].m = m => calls[i].id = NoID) =>
                  NewIDOf(m) = Lookup(Resources(old), m).id

\* C20: while Apply runs a plan NewPlan built, no precondition assertion of
\* step.Apply fires: a create step has old absent and new present without an
\* ID, a delete step has old present with an ID and new absent, an update step
\* has both present with equal types and old with an ID.
C20_AssertionsHold ==
    /\ failure # "StepAssert"
    /\ pc = "apply" =>
          LET inOld == \E i \in 1..Len(Resources(old)) : Resources(old)[i].m = step
              inNew == \E i \in 1..Len(Resources(new)) : Resources(new)[i].m = step
              o     == Lookup(Resources(old), step)
              n     == Lookup(Resources(new), step)
          IN /\ vs[step] = OpCreate => ~inOld /\ inNew /\ n.id = NoID
             /\ vs[step] = OpDelete => inOld /\ ~inNew /\ o.id # NoID
             /\ vs[step] = OpUpdate => inOld /\ inNew /\ o.t = n.t /\ o.id # NoID

C20_Witness ==
    /\ pc = "apply"
    /\ vs[step] = OpUpdate
    /\ Len(calls) = 2
    /\ NewIDOf(calls[2].m) # NoID

====
